---- MODULE Spec2Model ----
(***************************************************************************)
(* Model of qlib::thread_pool (src/thread_pool.h): a fixed set of worker   *)
(* threads that pop type-erased tasks from a queue guarded by one mutex    *)
(* and one condition variable, producers that enqueue packaged tasks and   *)
(* receive futures, and the destructor that raises the stop flag and joins *)
(* the workers.  Taking the mutex is one step; the statements a thread      *)
(* executes while it holds the mutex form one step, which ends by giving    *)
(* the mutex back; a notification, the run of a task and a join are one     *)
(* step each.                                                               *)
(***************************************************************************)
EXTENDS Integers, Sequences, FiniteSets, TLC

\* ---------------------------------------------------------------- bounds
MaxThreads == 2       \* num_threads is drawn from 0..MaxThreads
MaxCalls == 2         \* total number of enqueue calls

Workers == 1..MaxThreads
Ids == 1..MaxCalls

\* The callables the producers hand to enqueue: [i]{ return i; } and
\* []{ throw std::runtime_error("test"); } of the unit test.
Fns == {"ret_i", "throw"}

VARIABLES
    num_threads,  \* constructor argument: number of workers started
    m_stop,       \* thread_pool::m_stop
    m_tasks,      \* thread_pool::m_tasks (sequence of task ids)
    mtx,          \* owner of m_tasks_mtx, or Free
    wpc,          \* position of each worker in its loop
    wtask,        \* the worker's local `task` (0: empty std::function)
    ppc,          \* per call: position of the caller inside enqueue
    bound,        \* per call: the callable bound into the packaged_task
    fut,          \* per call: shared state of the packaged_task's future
    retHandle,    \* per call: the future handed back to the caller (0: none)
    dpc,          \* position of the destructor
    joinIdx,      \* index of the next worker the destructor joins
    execs         \* per call: how many times a worker has run its task

vars == <<num_threads, m_stop, m_tasks, mtx, wpc, wtask, ppc, bound, fut,
          retHandle, dpc, joinIdx, execs>>

poolVars == <<num_threads, m_stop, m_tasks, mtx, wpc, wtask>>
prodVars == <<ppc, bound, retHandle>>
dtorVars == <<dpc, joinIdx>>

\* ---------------------------------------------------------------- values
Free == <<"free">>
WorkerId(w) == <<"w", w>>
ProducerId(i) == <<"p", i>>
DtorId == <<"d">>

NoFuture == [st |-> "none", v |-> 0]
Pending == [st |-> "pending", v |-> 0]

\* Result of calling the bound callable directly: a value, or a failure.
Invoke(fn, arg) ==
    IF fn = "throw" THEN [st |-> "exc", v |-> 0]
                    ELSE [st |-> "val", v |-> arg]

Ready(f) == f.st \in {"val", "exc"}

\* The workers the constructor started.
Started == 1..num_threads

\* Workers blocked inside m_tasks_cv.wait.
Waiters == {w \in Started : wpc[w] = "waiting"}

\* ------------------------------------------------------------------ Init
Init ==
    /\ num_threads \in 0..MaxThreads
    /\ m_stop = FALSE
    /\ m_tasks = <<>>
    /\ mtx = Free
    /\ wpc = [w \in Workers |-> IF w <= num_threads THEN "lock" ELSE "absent"]
    /\ wtask = [w \in Workers |-> 0]
    /\ ppc = [i \in Ids |-> "idle"]
    /\ bound = [i \in Ids |-> "none"]
    /\ fut = [i \in Ids |-> NoFuture]
    /\ retHandle = [i \in Ids |-> 0]
    /\ dpc = "alive"
    /\ joinIdx = 0
    /\ execs = [i \in Ids |-> 0]

\* ---------------------------------------------------------------- worker
\* lock tasks_lck(m_tasks_mtx);
WLock(w) ==
    /\ wpc[w] = "lock"
    /\ mtx = Free
    /\ mtx' = WorkerId(w)
    /\ wpc' = [wpc EXCEPT ![w] = "locked"]
    /\ UNCHANGED <<num_threads, m_stop, m_tasks, wtask>>
    /\ UNCHANGED <<prodVars, fut, dtorVars>>
    /\ UNCHANGED execs

\* A condition variable may wake a waiter without any notification.
WSpurious(w) ==
    /\ wpc[w] = "waiting"
    /\ wpc' = [wpc EXCEPT ![w] = "relock"]
    /\ UNCHANGED <<num_threads, m_stop, m_tasks, mtx, wtask>>
    /\ UNCHANGED <<prodVars, fut, dtorVars>>
    /\ UNCHANGED execs

\* A woken waiter takes the lock again before it re-evaluates the predicate.
WRelock(w) ==
    /\ wpc[w] = "relock"
    /\ mtx = Free
    /\ mtx' = WorkerId(w)
    /\ wpc' = [wpc EXCEPT ![w] = "locked"]
    /\ UNCHANGED <<num_threads, m_stop, m_tasks, wtask>>
    /\ UNCHANGED <<prodVars, fut, dtorVars>>
    /\ UNCHANGED execs

\* Bug variant of WaitPred: the worker waits for the stop flag only.
WaitPredStopOnly == m_stop

\* Bug variant of WaitPred: the worker waits for a task and ignores the stop
\* flag.
WaitPredTasksOnly == m_tasks # <<>>

\* The predicate of m_tasks_cv.wait, evaluated with the lock held.
WaitPred == m_stop \/ m_tasks # <<>>

\* Bug variant of ExitTest: the worker leaves as soon as the stop flag is set.
ExitOnStop == m_stop

\* Bug variant of ExitTest: the test is left out, so a worker released by the
\* stop flag goes on to front() and pop().
ExitTestLeftOut == FALSE

\* The exit test of the worker loop.
ExitTest == m_stop /\ m_tasks = <<>>

\* What front() can yield: the head, or anything at all on an empty queue.
Front == IF m_tasks # <<>> THEN {Head(m_tasks)} ELSE 0..MaxCalls

\* Bug variant of Popped: m_tasks.pop() is left out.
PoppedKeeps == m_tasks

\* Bug variant of Popped: the worker takes the whole queue with it.
PoppedAll == <<>>

\* What pop() leaves in the queue.
Popped == IF m_tasks # <<>> THEN Tail(m_tasks) ELSE <<>>

\* Bug variant of WTake: tasks_lck.unlock() is left out before task().
WTakeKeepsLock(w) ==
    /\ wpc[w] = "locked"
    /\ mtx = WorkerId(w)
    /\ IF ~WaitPred
         THEN /\ wpc' = [wpc EXCEPT ![w] = "waiting"]
              /\ mtx' = Free
              /\ UNCHANGED <<m_tasks, wtask>>
         ELSE IF ExitTest
         THEN /\ wpc' = [wpc EXCEPT ![w] = "exited"]
              /\ mtx' = Free
              /\ UNCHANGED <<m_tasks, wtask>>
         ELSE /\ \E t \in Front : wtask' = [wtask EXCEPT ![w] = t]
              /\ m_tasks' = Popped
              /\ wpc' = [wpc EXCEPT ![w] = "run"]
              /\ mtx' = mtx
    /\ UNCHANGED <<num_threads, m_stop>>
    /\ UNCHANGED <<prodVars, fut, dtorVars>>
    /\ UNCHANGED execs

\* The worker's critical section, entered with the lock held:
\*   m_tasks_cv.wait(tasks_lck, pred);   while the predicate is false, release
\*                                       the lock and block, atomically
\*   if (m_stop && m_tasks.empty()) return;   (the lock is released on return)
\*   task = std::move(m_tasks.front()); m_tasks.pop();
\*   tasks_lck.unlock();
WTake(w) ==
    /\ wpc[w] = "locked"
    /\ mtx = WorkerId(w)
    /\ mtx' = Free
    /\ IF ~WaitPred
         THEN /\ wpc' = [wpc EXCEPT ![w] = "waiting"]
              /\ UNCHANGED <<m_tasks, wtask>>
         ELSE IF ExitTest
         THEN /\ wpc' = [wpc EXCEPT ![w] = "exited"]
              /\ UNCHANGED <<m_tasks, wtask>>
         ELSE /\ \E t \in Front : wtask' = [wtask EXCEPT ![w] = t]
              /\ m_tasks' = Popped
              /\ wpc' = [wpc EXCEPT ![w] = "run"]
    /\ UNCHANGED <<num_threads, m_stop>>
    /\ UNCHANGED <<prodVars, fut, dtorVars>>
    /\ UNCHANGED execs

\* Bug variant of TargetOf: the closure refers to the most recently packaged
\* task instead of holding its own.
TargetOfNewest(t) ==
    CHOOSE j \in Ids : ppc[j] # "idle" /\ \A k \in Ids : ppc[k] # "idle" => k <= j

\* The future a queued closure writes: the one of the packaged_task it
\* captured.
TargetOf(t) == t

\* Bug variant of Stored: one failure slot shared by all tasks, so that every
\* task finishing after a failure reports that failure.
StoredAfterFailure(t) ==
    IF \E j \in Ids : fut[j].st = "exc"
      THEN [st |-> "exc", v |-> 0]
      ELSE Invoke(bound[t], t)

\* Bug variant of Stored: a failure is swallowed and the future is never
\* made ready.
StoredDropsFailure(t) ==
    IF bound[t] = "throw" THEN Pending ELSE Invoke(bound[t], t)

\* What running packaged task t stores in its shared state: the value the
\* bound callable returns, or the failure it raised.
Stored(t) == Invoke(bound[t], t)

\* Bug variant of AfterTask: a failure raised by the task body leaves the
\* worker's thread function instead of being kept in the future.
AfterTaskEscapes(t) == IF bound[t] = "throw" THEN "exited" ELSE "lock"

\* Where the worker continues after task() returned.
AfterTask(t) == "lock"

\* task();  runs the packaged_task, which stores the outcome in the future,
\* then the loop starts over and the local `task` is destroyed.
WRun(w) ==
    /\ wpc[w] = "run"
    /\ wtask[w] \in Ids
    /\ fut' = [fut EXCEPT ![TargetOf(wtask[w])] = Stored(wtask[w])]
    /\ wtask' = [wtask EXCEPT ![w] = 0]
    /\ wpc' = [wpc EXCEPT ![w] = AfterTask(wtask[w])]
    /\ execs' = [execs EXCEPT ![wtask[w]] = @ + 1]
    /\ UNCHANGED <<num_threads, m_stop, m_tasks, mtx>>
    /\ UNCHANGED <<prodVars, dtorVars>>

\* -------------------------------------------------------------- producer
\* Call i is the i-th call of enqueue; calls may overlap (several producer
\* threads) or follow each other.

\* The caller of call i is inside enqueue.
InCall(i) == ppc[i] \notin {"idle", "returned", "thrown"}

\* Calls are numbered in the order in which they are made.
Earlier(i) == \A j \in Ids : j < i => ppc[j] # "idle"

\* enqueue(fn, args...): package the callable, take its future, and take
\* the lock.
\*   auto task = std::make_shared<packaged_task<return_t>>(std::bind(...));
\*   future<return_t> result = task->get_future();
\*   lock tasks_lck(m_tasks_mtx);
\* No call is made on a pool whose destructor has returned.
PCall(i, fn) ==
    /\ ppc[i] = "idle"
    /\ Earlier(i)
    /\ dpc # "done"
    /\ mtx = Free
    /\ mtx' = ProducerId(i)
    /\ bound' = [bound EXCEPT ![i] = fn]
    /\ fut' = [fut EXCEPT ![i] = Pending]
    /\ ppc' = [ppc EXCEPT ![i] = "check"]
    /\ UNCHANGED <<num_threads, m_stop, m_tasks, wpc, wtask>>
    /\ UNCHANGED <<retHandle, dtorVars>>
    /\ UNCHANGED execs

\* Bug variant of Rejects: the worker's exit test used as the stop check.
RejectsWhenDrained == m_stop /\ m_tasks = <<>>

\* The condition under which enqueue refuses the task.
Rejects == m_stop

\* Bug variant of PPush: the task is emplaced before the stop flag is tested.
PPushEmplaceFirst(i) ==
    /\ ppc[i] = "check"
    /\ mtx = ProducerId(i)
    /\ mtx' = Free
    /\ m_tasks' = Append(m_tasks, i)
    /\ IF m_stop
         THEN /\ fut' = [fut EXCEPT ![i] = NoFuture]
              /\ ppc' = [ppc EXCEPT ![i] = "thrown"]
         ELSE /\ ppc' = [ppc EXCEPT ![i] = "notify"]
              /\ UNCHANGED fut
    /\ UNCHANGED <<num_threads, m_stop, wpc, wtask>>
    /\ UNCHANGED <<bound, retHandle, dtorVars>>
    /\ UNCHANGED execs

\* Bug variant of PPush: the task is put at the head of the queue.
PPushFront(i) ==
    /\ ppc[i] = "check"
    /\ mtx = ProducerId(i)
    /\ mtx' = Free
    /\ IF m_stop
         THEN /\ fut' = [fut EXCEPT ![i] = NoFuture]
              /\ ppc' = [ppc EXCEPT ![i] = "thrown"]
              /\ UNCHANGED m_tasks
         ELSE /\ m_tasks' = <<i>> \o m_tasks
              /\ ppc' = [ppc EXCEPT ![i] = "notify"]
              /\ UNCHANGED fut
    /\ UNCHANGED <<num_threads, m_stop, wpc, wtask>>
    /\ UNCHANGED <<bound, retHandle, dtorVars>>
    /\ UNCHANGED execs

\* The critical section of enqueue, with the lock held:
\*   if (m_stop) throw std::runtime_error("attempt to enqueue on stopped ...");
\*   m_tasks.emplace([task](void){ (*task)(); });
\*   tasks_lck.unlock();
\* The throw unwinds enqueue: the lock is released, and `task` and `result`
\* are destroyed without ever reaching the caller.
PPush(i) ==
    /\ ppc[i] = "check"
    /\ mtx = ProducerId(i)
    /\ mtx' = Free
    /\ IF Rejects
         THEN /\ fut' = [fut EXCEPT ![i] = NoFuture]
              /\ ppc' = [ppc EXCEPT ![i] = "thrown"]
              /\ UNCHANGED m_tasks
         ELSE /\ m_tasks' = Append(m_tasks, i)
              /\ ppc' = [ppc EXCEPT ![i] = "notify"]
              /\ UNCHANGED fut
    /\ UNCHANGED <<num_threads, m_stop, wpc, wtask>>
    /\ UNCHANGED <<bound, retHandle, dtorVars>>
    /\ UNCHANGED execs

\* Bug variant of NotifyOne: the notification is left out.
NotifyNone == {wpc}

\* The worker positions after a notify_one: one blocked worker, if there is
\* any, leaves the wait.
NotifyOne == IF Waiters = {}
               THEN {wpc}
               ELSE {[wpc EXCEPT ![w] = "relock"] : w \in Waiters}

\* Bug variant of NotifyAll: notify_one in the destructor.
NotifyAllWakesOne ==
    IF Waiters = {}
      THEN wpc
      ELSE [wpc EXCEPT ![CHOOSE w \in Waiters : TRUE] = "relock"]

\* The worker positions after a notify_all: every blocked worker leaves the
\* wait.
NotifyAll == [w \in Workers |-> IF w \in Waiters THEN "relock" ELSE wpc[w]]

\* Bug variant of PNotify: enqueue returns only when the task has been run.
PNotifyAfterRun(i) ==
    /\ ppc[i] = "notify"
    /\ Ready(fut[i])
    /\ wpc' \in NotifyOne
    /\ retHandle' = [retHandle EXCEPT ![i] = i]
    /\ ppc' = [ppc EXCEPT ![i] = "returned"]
    /\ UNCHANGED <<num_threads, m_stop, m_tasks, mtx, wtask>>
    /\ UNCHANGED <<bound, fut, dtorVars>>
    /\ UNCHANGED execs

\* m_tasks_cv.notify_one();
\* return result;   the caller now holds the future of its own task.
PNotify(i) ==
    /\ ppc[i] = "notify"
    /\ wpc' \in NotifyOne
    /\ retHandle' = [retHandle EXCEPT ![i] = i]
    /\ ppc' = [ppc EXCEPT ![i] = "returned"]
    /\ UNCHANGED <<num_threads, m_stop, m_tasks, mtx, wtask>>
    /\ UNCHANGED <<bound, fut, dtorVars>>
    /\ UNCHANGED execs

\* ------------------------------------------------------------ destructor
\* The owner destroys the pool: ~thread_pool is entered.
\*   lock tasks_lck(m_tasks_mtx);
DLock ==
    /\ dpc = "alive"
    /\ mtx = Free
    /\ mtx' = DtorId
    /\ dpc' = "set"
    /\ UNCHANGED <<num_threads, m_stop, m_tasks, wpc, wtask>>
    /\ UNCHANGED <<joinIdx, prodVars, fut>>
    /\ UNCHANGED execs

\* m_stop = true; tasks_lck.unlock();
DSet ==
    /\ dpc = "set"
    /\ mtx = DtorId
    /\ m_stop' = TRUE
    /\ mtx' = Free
    /\ dpc' = "notify"
    /\ UNCHANGED <<num_threads, m_tasks, wpc, wtask>>
    /\ UNCHANGED <<joinIdx, prodVars, fut>>
    /\ UNCHANGED execs

\* m_tasks_cv.notify_all();
DNotify ==
    /\ dpc = "notify"
    /\ wpc' = NotifyAll
    /\ dpc' = "join"
    /\ joinIdx' = 1
    /\ UNCHANGED <<num_threads, m_stop, m_tasks, mtx, wtask>>
    /\ UNCHANGED <<prodVars, fut>>
    /\ UNCHANGED execs

\* Bug variant of DJoin: the destructor lets go of the worker without waiting
\* for its thread function to return.
DJoinDetach ==
    /\ dpc = "join"
    /\ joinIdx <= num_threads
    /\ joinIdx' = joinIdx + 1
    /\ UNCHANGED <<dpc, poolVars, prodVars, fut>>
    /\ UNCHANGED execs

\* for (auto& w : m_workers) w.join();   one join per step, in vector order;
\* a join returns when that worker's thread function has returned.
DJoin ==
    /\ dpc = "join"
    /\ joinIdx <= num_threads
    /\ wpc[joinIdx] = "exited"
    /\ joinIdx' = joinIdx + 1
    /\ UNCHANGED <<dpc, poolVars, prodVars, fut>>
    /\ UNCHANGED execs

\* Every join of the destructor's loop has returned.
Joined == dpc = "done" \/ (dpc = "join" /\ joinIdx > num_threads)

\* The destructor body returns.  The members are destroyed right after, so
\* the owner must not let it return while a thread is still inside enqueue.
DReturn ==
    /\ dpc = "join"
    /\ joinIdx > num_threads
    /\ \A i \in Ids : ~InCall(i)
    /\ dpc' = "done"
    /\ UNCHANGED <<joinIdx, poolVars, prodVars, fut>>
    /\ UNCHANGED execs

\* ------------------------------------------------------- result handles
\* The calls of a future's holder read the shared state and change nothing
\* the pool sees, so they are given as the result they have on state f.

\* future::wait(): blocks until the shared state is ready, then returns; a
\* stored failure is not raised.
FutureWait(f) == IF Ready(f) THEN "returned" ELSE "blocked"

\* future::get(): blocks until the shared state is ready, then returns the
\* stored value or raises the stored failure.
FutureGet(f) ==
    IF f.st = "val" THEN [st |-> "returned", v |-> f.v]
    ELSE IF f.st = "exc" THEN [st |-> "raised", v |-> f.v]
    ELSE [st |-> "blocked", v |-> 0]

\* ------------------------------------------------------------------ Next
Worker(w) ==
    \/ WLock(w)
    \/ WSpurious(w)
    \/ WRelock(w)
    \/ WTake(w)
    \/ WRun(w)

Producer(i) ==
    \/ \E fn \in Fns : PCall(i, fn)
    \/ PPush(i)
    \/ PNotify(i)

Dtor ==
    \/ DLock
    \/ DSet
    \/ DNotify
    \/ DJoin
    \/ DReturn

Next ==
    \/ \E w \in Workers : Worker(w)
    \/ \E i \in Ids : Producer(i)
    \/ Dtor

Spec == Init /\ [][Next]_vars

\* Fair scheduling: a thread that can take a step eventually takes it, and a
\* thread that asks for the mutex gets it if it is free again and again.  Task
\* bodies terminate (WRun).  Nothing forces a producer to call enqueue, the
\* owner to destroy the pool, or a spurious wake-up to happen.
Fairness ==
    /\ \A w \in Workers :
          /\ SF_vars(WLock(w) \/ WRelock(w))
          /\ WF_vars(WTake(w) \/ WRun(w))
    /\ \A i \in Ids : WF_vars(PPush(i) \/ PNotify(i))
    /\ WF_vars(DSet \/ DNotify \/ DJoin \/ DReturn)

FairSpec == Spec /\ Fairness

TypeOK ==
    /\ num_threads \in 0..MaxThreads
    /\ m_stop \in BOOLEAN
    /\ m_tasks \in Seq(Ids)
    /\ \A w \in Workers : wtask[w] \in 0..MaxCalls
    /\ \A i \in Ids : fut[i].st \in {"none", "pending", "val", "exc"}
    /\ \A i \in Ids : execs[i] \in 0..1

\* ---------------------------------------------------------------- claims
\* Call i's task was pushed onto the queue (the stop flag was false when the
\* push happened).
Accepted(i) == ppc[i] \in {"notify", "returned"}

\* Call i was refused with the pool-stopped error.
Rejected(i) == ppc[i] = "thrown"

\* Every started worker has left its loop.
AllExited == \A w \in Started : wpc[w] = "exited"

\* Task i is waiting in the queue.
InQueue(i) == \E k \in 1..Len(m_tasks) : m_tasks[k] = i

\* Some worker has popped task i and has not finished running it.
Running(i) == \E w \in Started : wpc[w] = "run" /\ wtask[w] = i

\* Task i was accepted, popped and run to its end.
Done(i) == Accepted(i) /\ ~InQueue(i) /\ ~Running(i)

\* What get() on a future yields once the callable bound by call i has been
\* called directly with its own arguments.
Direct(i) == FutureGet(Invoke(bound[i], i))

\* C1: in a pool with at least one worker, under fair scheduling and with
\* terminating task bodies, every task whose push was accepted is eventually
\* executed, so that its future becomes ready.
C1_AcceptedEventuallyReady ==
    \A i \in Ids : (num_threads >= 1 /\ Accepted(i)) ~> Ready(fut[i])

\* A pool with a worker has run an accepted task to completion.
C1_Witness ==
    \E i \in Ids : num_threads >= 1 /\ Accepted(i) /\ Ready(fut[i])

\* C10: once the destructor has set the stop flag, under fair scheduling and
\* with terminating task bodies, every worker leaves its loop and all the
\* destructor's joins return.
C10_TeardownTerminates == m_stop ~> (Joined /\ AllExited)

\* The destructor has joined a full set of workers.
C10_Witness == Joined /\ AllExited /\ num_threads = MaxThreads

\* C2: the handle returned by the i-th enqueue call resolves to the outcome
\* of the i-th task's own callable on its own arguments, and only through
\* the execution of that task, whatever the interleaving of the workers.
C2_HandleResolvesToOwnTask ==
    \A i \in Ids :
        (retHandle[i] # 0 /\ Ready(fut[retHandle[i]])) =>
            /\ FutureGet(fut[retHandle[i]]) = Direct(i)
            /\ Done(i)

\* Two handles have resolved, to different values, in a pool of two workers.
C2_Witness ==
    /\ num_threads >= 2
    /\ \E i, j \in Ids :
          /\ i # j
          /\ retHandle[i] # 0 /\ retHandle[j] # 0
          /\ fut[retHandle[i]].st = "val" /\ fut[retHandle[j]].st = "val"
          /\ fut[retHandle[i]].v # fut[retHandle[j]].v

\* C3: a failure raised by a task ends up in that task's own future, whose
\* get() raises it; every other task's future resolves as the direct call of
\* its own callable would, and the worker that ran the failing task stays in
\* its loop.
C3_FailureIsolated ==
    \A i \in Ids :
        (bound[i] = "throw" /\ Done(i)) =>
            /\ FutureGet(fut[i]).st = "raised"
            /\ \A j \in Ids \ {i} :
                  Ready(fut[j]) => (bound[j] = "throw") = (fut[j].st = "exc")
            /\ \A j \in Ids \ {i} : Done(j) => FutureGet(fut[j]) = Direct(j)
            /\ ~m_stop => \A w \in Started : wpc[w] # "exited"

\* A task has failed and another task, run after it was accepted, has
\* delivered its value.
C3_Witness ==
    \E i, j \in Ids :
        /\ i # j
        /\ bound[i] = "throw" /\ Done(i)
        /\ bound[j] = "ret_i" /\ Done(j) /\ fut[j].st = "val"

\* C4: once a task that raises a failure has finished, wait() on its handle
\* returns without raising and get() on the same handle raises the failure.
C4_WaitReturnsGetRaises ==
    \A i \in Ids :
        (retHandle[i] # 0 /\ bound[i] = "throw" /\ Done(i)) =>
            /\ FutureWait(fut[retHandle[i]]) = "returned"
            /\ FutureGet(fut[retHandle[i]]) = [st |-> "raised", v |-> 0]

\* The caller holds the handle of a failing task that a worker has finished.
C4_Witness ==
    \E i \in Ids : retHandle[i] # 0 /\ bound[i] = "throw" /\ Done(i)

\* C5: with the stop flag set, the step that decides an enqueue call ends it
\* with the pool-stopped error; no handle is returned and the error is not
\* stored in a future.
C5_RejectedAfterStop ==
    [][\A i \in Ids :
          (m_stop /\ ppc[i] = "check" /\ ppc'[i] # "check") =>
              /\ ppc'[i] = "thrown"
              /\ retHandle'[i] = 0
              /\ ~Ready(fut'[i])]_vars

\* An enqueue call made after the stop flag was set has been refused.
C5_Witness == \E i \in Ids : m_stop /\ Rejected(i) /\ retHandle[i] = 0

\* The state of the pool that its threads share.
Shared == <<m_tasks, m_stop, num_threads, wpc, wtask>>

\* C6: the steps of a rejected enqueue call (the stop flag is set when it
\* takes the lock) leave the queue, the stop flag and the workers as they
\* were, wake no worker, and give the lock back.
C6_RejectionChangesNothing ==
    [][\A i \in Ids :
          (m_stop /\ ppc[i] \in {"idle", "check"} /\ ppc'[i] # ppc[i]) =>
              /\ Shared' = Shared
              /\ ppc'[i] = "thrown" => mtx' = Free]_vars

\* A call was refused while tasks were still queued and a worker was blocked
\* or about to take the lock.
C6_Witness ==
    \E i \in Ids :
        /\ Rejected(i)
        /\ m_tasks # <<>>
        /\ \E w \in Started : wpc[w] \in {"waiting", "relock", "lock"}

\* C7: teardown drains the queue: when all workers have exited and the
\* destructor's joins have returned, every accepted task has been popped and
\* executed, and its handle has resolved.
C7_TeardownDrains ==
    (Joined /\ AllExited) => \A i \in Ids : Accepted(i) => Ready(fut[i])

\* C8: an enqueue that races with teardown is either refused, with nothing
\* queued, or accepted and executed before the last worker exits; no accepted
\* task is left in the queue once all workers have exited.
C8_RejectedOrExecuted ==
    \A i \in Ids :
        /\ Rejected(i) => ~InQueue(i)
        /\ (Accepted(i) /\ m_stop /\ AllExited) => (~InQueue(i) /\ Ready(fut[i]))

\* C9: when the destructor has returned, every worker has exited its loop,
\* no task is executing, and the queue is empty.
C9_TeardownPostcondition ==
    dpc = "done" =>
        /\ AllExited
        /\ \A i \in Ids : ~Running(i)
        /\ m_tasks = <<>>

\* C7, C8 and C9 fail only in a pool constructed with no worker: they hold
\* in every pool that has at least one.
DrainedWithWorkers ==
    num_threads >= 1 =>
        /\ C7_TeardownDrains
        /\ C8_RejectedOrExecuted
        /\ C9_TeardownPostcondition

\* A pool with workers was torn down right behind two accepted calls.
DrainedWitness ==
    /\ num_threads >= 1
    /\ dpc = "done"
    /\ \A i \in Ids : Accepted(i) /\ Ready(fut[i])

\* Worker w pops a task in this step.
Pops(w) == wpc[w] = "locked" /\ wpc'[w] = "run"

\* C11: tasks leave the queue in the order in which their pushes were
\* accepted, whichever worker pops them.  Pushes are accepted in the order
\* of the call numbers (a call holds the lock from its start to its push), so
\* the queue is ordered by call number and every pop takes the task whose
\* push is the oldest among the queued ones.
C11_FifoHandOff ==
    [][/\ \A k \in 1..Len(m_tasks') :
             \A l \in 1..Len(m_tasks') : k < l => m_tasks'[k] < m_tasks'[l]
       /\ \A w \in Workers :
             Pops(w) =>
                 /\ InQueue(wtask'[w])
                 /\ \A j \in Ids : InQueue(j) => wtask'[w] <= j]_vars

\* The first task is running, the second one is queued behind it, and a
\* second worker holds the lock and is about to pop.
C11_Witness ==
    \E w, x \in Started :
        /\ wpc[w] = "run" /\ wtask[w] = 1
        /\ wpc[x] = "locked"
        /\ m_tasks = <<2>>

\* The number of workers that hold task i in their local `task`.
Holders(i) == Cardinality({w \in Started : wpc[w] = "run" /\ wtask[w] = i})

\* The number of places of the queue that hold task i.
Queued(i) == Cardinality({k \in 1..Len(m_tasks) : m_tasks[k] = i})

\* C12: every accepted task is popped by exactly one worker and executed
\* exactly once: it is never held twice, never run twice, and once teardown
\* has completed it has run once and its future is written.
C12_ExactlyOnce ==
    \A i \in Ids :
        Accepted(i) =>
            /\ Queued(i) + Holders(i) <= 1
            /\ execs[i] <= 1
            /\ execs[i] = 1 <=> Ready(fut[i])
            /\ Joined => (execs[i] = 1 /\ Ready(fut[i]))

\* Exactly-once execution holds in every pool that has at least one worker.
ExactlyOnceWithWorkers == num_threads >= 1 => C12_ExactlyOnce

\* The workers that exist: the threads the constructor has created.
Existing == {w \in Workers : wpc[w] # "absent"}

\* C13: the pool always has at least one worker, also when it is constructed
\* with a thread count of 0.
C13_AtLeastOneWorker == Cardinality(Existing) >= 1

\* The positions of a worker that is inside its loop.
InLoop == {"lock", "locked", "waiting", "relock", "run"}

\* C14: the constructor starts exactly num_threads workers and the set of
\* workers never changes; while the stop flag is false every one of them is
\* in its loop, also after it ran a task that raised a failure.
C14_WorkerCountFixed ==
    /\ Existing = Started
    /\ ~m_stop => \A w \in Started : wpc[w] \in InLoop

\* The only worker of a running pool ran a failing task and then a later
\* task.
C14_Witness ==
    /\ num_threads = 1
    /\ ~m_stop
    /\ \E i, j \in Ids :
          /\ i < j
          /\ bound[i] = "throw" /\ execs[i] = 1
          /\ execs[j] = 1

\* The pool's lifecycle state: Running until the stop flag is set, Stopping
\* until the destructor has joined every worker, then Stopped.
Phase == IF ~m_stop THEN "Running" ELSE IF ~Joined THEN "Stopping" ELSE "Stopped"

\* The lifecycle steps the pool may take.
PhaseSteps == {<<"Running", "Stopping">>, <<"Stopping", "Stopped">>}

\* C15: the stop flag starts false, is set once, by the destructor, and is
\* never cleared; the pool only moves Running -> Stopping -> Stopped, and
\* with the flag set no further enqueue call is accepted.
C15_LifecycleMonotonic ==
    /\ ~m_stop
    /\ [][/\ m_stop => m_stop'
          /\ m_stop' # m_stop => (dpc = "set" /\ dpc' = "notify")
          /\ Phase' # Phase => <<Phase, Phase'>> \in PhaseSteps
          /\ m_stop => \A i \in Ids : Accepted(i)' => Accepted(i)]_vars

\* The pool is Stopped and has refused a call made during teardown.
C15_Witness == Phase = "Stopped" /\ \E i \in Ids : Rejected(i)

\* future::valid(): the handle refers to a shared state.
Valid(h) == h # 0 /\ fut[h].st # "none"

\* C16: a successful enqueue never waits for execution: once its push is
\* done the call can return at once, whatever the workers are doing and
\* whatever the queue holds, and the handle it returns is valid, also while
\* its task has not run.
C16_EnqueueNeverWaits ==
    \A i \in Ids :
        /\ ppc[i] = "notify" => ENABLED PNotify(i)
        /\ ppc[i] = "returned" => Valid(retHandle[i])

\* A call has returned a valid handle while its task is still queued behind
\* a task that the only worker is running.
C16_Witness ==
    \E i \in Ids :
        /\ num_threads >= 1
        /\ \A w \in Started : wpc[w] = "run"
        /\ ppc[i] = "returned" /\ Valid(retHandle[i])
        /\ InQueue(i) /\ fut[i] = Pending

\* Worker w leaves its loop in this step.
Exits(w) == wpc[w] # "exited" /\ wpc'[w] = "exited"

\* C17: a worker leaves its loop only in a step it takes with the lock held,
\* the stop flag set and the queue empty; with the stop flag set and a task
\* queued, the worker's critical section pops the head task instead.
C17_ExitOnlyWhenStoppedAndEmpty ==
    [][\A w \in Workers :
          /\ Exits(w) =>
                (mtx = WorkerId(w) /\ m_stop /\ m_tasks = <<>>)
          /\ (wpc[w] = "locked" /\ wpc'[w] # "locked"
                /\ m_stop /\ m_tasks # <<>>) =>
                (Pops(w) /\ wtask'[w] = Head(m_tasks)
                   /\ m_tasks' = Tail(m_tasks))]_vars

\* After the stop flag was set one worker has left its loop while the other
\* one still runs a task popped from the queue.
C17_Witness ==
    \E w, x \in Started :
        /\ m_stop
        /\ wpc[w] = "exited"
        /\ wpc[x] = "run"

\* Task i is at the head of the queue.
AtHead(i) == m_tasks # <<>> /\ Head(m_tasks) = i

\* Some worker is not executing a task.
SomeWorkerFree == \E w \in Started : wpc[w] # "run"

\* C18: no wake-up is lost: under fair scheduling, whenever the queue is not
\* empty and some worker is not executing a task, the head task is eventually
\* popped, whether the push found a worker blocked, about to block, or none
\* waiting at all.
C18_NoLostWakeup ==
    \A i \in Ids : (AtHead(i) /\ SomeWorkerFree) ~> ~InQueue(i)

\* A push was made while no worker was blocked in the wait: one worker is
\* running a task, the other is on its way to the lock, and the pusher has
\* not yet notified.
C18_Witness ==
    \E i \in Ids :
        /\ AtHead(i) /\ ppc[i] = "notify"
        /\ Waiters = {}
        /\ \E w, x \in Started : wpc[w] = "run" /\ wpc[x] \in {"lock", "relock"}

\* C19: a worker that is running a task body does not hold the queue lock;
\* only a worker in its critical section holds it, so producers and the other
\* workers can take the lock while tasks run.
C19_NoLockWhileRunning ==
    \A w \in Workers :
        /\ wpc[w] = "run" => mtx # WorkerId(w)
        /\ mtx = WorkerId(w) <=> wpc[w] = "locked"

\* While one worker runs a task, a producer holds the lock to push the next.
C19_Witness ==
    \E w \in Started, i \in Ids :
        wpc[w] = "run" /\ mtx = ProducerId(i) /\ ppc[i] = "check"

\* 1 if task i has been completed (its future is written), else 0.
Completed(i) == IF Ready(fut[i]) THEN 1 ELSE 0

\* Worker w finishes the task it runs in this step.
Finishes(w) == wpc[w] = "run" /\ wpc'[w] # "run"

\* C20: every accepted task is in exactly one place: in the queue (once),
\* held by one worker that executes it, or completed.  The queue gets
\* shorter only by a worker's pop, by one task, and the worker that popped a
\* task is the one that executes it.
C20_Conservation ==
    /\ [](\A i \in Ids :
             Accepted(i) => Queued(i) + Holders(i) + Completed(i) = 1)
    /\ [][/\ Len(m_tasks') < Len(m_tasks) =>
                 \E w \in Workers :
                     /\ Pops(w)
                     /\ wtask'[w] = Head(m_tasks)
                     /\ m_tasks' = Tail(m_tasks)
          /\ \A w \in Workers :
                 /\ (wpc[w] = "run" /\ ~Finishes(w)) => wtask'[w] = wtask[w]
                 /\ Finishes(w) =>
                       (~Ready(fut[wtask[w]]) /\ Ready(fut'[wtask[w]]))
          /\ \A i \in Ids :
                 (~Ready(fut[i]) /\ Ready(fut'[i])) =>
                     \E w \in Workers : Finishes(w) /\ wtask[w] = i]_vars

\* One accepted task is queued while a worker holds and executes another
\* one that it popped; neither is completed.
C20_Witness ==
    \E i, j \in Ids :
        /\ Accepted(i) /\ Accepted(j)
        /\ Queued(i) = 1 /\ Holders(j) = 1
        /\ Completed(i) = 0 /\ Completed(j) = 0

\* The destructor's join of worker w has returned.
JoinedWorker(w) == dpc = "done" \/ (dpc = "join" /\ joinIdx > w)

\* C21: a task that a worker has popped survives the stop flag: the step that
\* sets the flag, and every step taken with the flag set, leaves a running
\* worker running the same task with its future untouched, or is that
\* worker's own step that ends the task and writes its outcome to its future;
\* the join of a worker does not return while that worker runs a task; and
\* under fair scheduling the task's future becomes ready.
C21_InFlightSurvivesStop ==
    /\ [](\A w \in Started : wpc[w] = "run" => ~JoinedWorker(w))
    /\ [][\A w \in Started :
             (m_stop' /\ wpc[w] = "run") =>
                 \/ /\ wpc'[w] = "run"
                    /\ wtask'[w] = wtask[w]
                    /\ fut'[wtask[w]] = fut[wtask[w]]
                 \/ /\ Finishes(w)
                    /\ fut'[wtask[w]] = Invoke(bound[wtask[w]], wtask[w])]_vars
    /\ \A i \in Ids : (m_stop /\ Running(i)) ~> Ready(fut[i])

\* The stop flag is set and the destructor is blocked in the join of a worker
\* that is still running a task whose future is not yet written.
C21_Witness ==
    /\ m_stop /\ dpc = "join"
    /\ joinIdx \in Started
    /\ wpc[joinIdx] = "run"
    /\ fut[wtask[joinIdx]] = Pending

\* Worker w suspends in the condition wait in this step.
Blocks(w) == wpc[w] # "waiting" /\ wpc'[w] = "waiting"

\* Worker w evaluates the wait predicate in this step: it ends its critical
\* section.
Evaluates(w) == wpc[w] = "locked" /\ wpc'[w] # "locked"

\* C22: a worker suspends in the condition wait only in a step in which it
\* holds the lock and finds the queue empty and the stop flag false; a worker
\* that evaluates the predicate with a task queued or the stop flag set does
\* not suspend: it pops a task or leaves its loop.
C22_BlocksOnlyWhenEmptyAndRunning ==
    [][\A w \in Workers :
          /\ Blocks(w) =>
                /\ Evaluates(w)
                /\ mtx = WorkerId(w)
                /\ m_tasks = <<>>
                /\ ~m_stop
          /\ (Evaluates(w) /\ (m_tasks # <<>> \/ m_stop)) =>
                wpc'[w] \in {"run", "exited"}]_vars

\* With the pool running and the queue empty one worker is suspended in the
\* wait, while the other one found a task queued and is running it.
C22_Witness ==
    \E w, x \in Started :
        /\ ~m_stop /\ m_tasks = <<>>
        /\ wpc[w] = "waiting"
        /\ wpc[x] = "run"

\* Task i has started: a worker has popped it and runs it, or has run it.
HasStarted(i) == Running(i) \/ execs[i] >= 1

\* Task i has completed: its run is over and its future is written.
HasCompleted(i) == execs[i] >= 1 /\ Ready(fut[i])

\* C23: in a pool with exactly one worker the tasks run one after the other
\* in the order of their submission (the call numbers): a task has started
\* only if every task accepted before it has completed, so at most one task
\* runs at any time and the tasks complete in submission order.
C23_SingleWorkerSequential ==
    num_threads = 1 =>
        /\ \A i, j \in Ids :
              (i < j /\ Accepted(j) /\ HasStarted(j)) =>
                  (Accepted(i) /\ HasCompleted(i))
        /\ Cardinality({i \in Ids : Running(i)}) <= 1

\* The only worker has completed the first task and is running the second,
\* which was queued behind it.
C23_Witness ==
    /\ num_threads = 1
    /\ \E i, j \in Ids :
          /\ i < j
          /\ Accepted(i) /\ HasCompleted(i)
          /\ Accepted(j) /\ Running(j) /\ ~HasCompleted(j)

\* C24: a worker never pops from an empty queue: every step in which a worker
\* executes front() and pop() starts with a task in the queue and hands the
\* worker that queue's head, so the local `task` of a running worker is always
\* a task that was pushed; this includes workers woken without a push, by
\* notify_all, or in greater number than there are tasks.
C24_NeverPopsEmpty ==
    /\ [](\A w \in Started : wpc[w] = "run" => wtask[w] \in Ids)
    /\ [][\A w \in Workers :
             Pops(w) =>
                 /\ m_tasks # <<>>
                 /\ wtask'[w] = Head(m_tasks)
                 /\ Len(m_tasks') = Len(m_tasks) - 1]_vars

\* After the destructor's notify_all one worker runs the last task and the
\* other one, woken as well, holds the lock and finds the queue empty.
C24_Witness ==
    \E w, x \in Started :
        /\ m_stop /\ dpc = "join"
        /\ m_tasks = <<>>
        /\ wpc[w] = "run"
        /\ wpc[x] = "locked"

\* The tasks that are being executed.
Executing == {i \in Ids : Running(i)}

\* The workers that are executing a task.
Busy == {w \in Workers : wpc[w] = "run"}

\* C25: at most num_threads tasks are executed at the same time: only started
\* workers execute tasks, a worker holds a task only while it runs it and
\* then holds one, no task is run by two workers, and an accepted task that
\* no worker is running and that has not completed is still in the queue.
C25_BoundedParallelism ==
    /\ Cardinality(Executing) <= num_threads
    /\ Busy \subseteq Started
    /\ Cardinality(Executing) = Cardinality(Busy)
    /\ \A w \in Workers : wpc[w] # "run" => wtask[w] = 0
    /\ \A i \in Ids : Holders(i) <= 1
    /\ \A i \in Ids :
          (Accepted(i) /\ ~Running(i) /\ ~Ready(fut[i])) => InQueue(i)

\* Every worker of the pool is executing a task and a further accepted task
\* waits in the queue.
C25_Witness ==
    /\ num_threads >= 1
    /\ Cardinality(Executing) = num_threads
    /\ \E i \in Ids : Accepted(i) /\ InQueue(i) /\ ~Running(i)

====
